---- MODULE Spec2Model ----
(***************************************************************************)
(* Greedy overlap assembler (fixed_assembler) and read generator           *)
(* (read_creator) of Varied-Kmer-Assembly-and-Analysis.                    *)
(*                                                                         *)
(* A Rust String is modelled as a sequence of one-character strings, a     *)
(* Vec<String> as a sequence of such sequences.  Vec indices keep the      *)
(* source's 0-based numbering; At(v, i) reads element i.  Fragments are    *)
(* ASCII, as main's are, so byte offsets and character offsets coincide.   *)
(* A slice whose start lies beyond the end of the string panics; the       *)
(* model records that as pc = "panic".                                     *)
(***************************************************************************)
EXTENDS Integers, Sequences, FiniteSets, Bags, TLC

VARIABLES
    contigs,          \* assemble_genome: the Vec<String> being merged
    k,                \* assemble_genome: overlap bound
    max_overlap_len,  \* assemble_genome: best overlap of the current search
    best_pair,        \* assemble_genome: <<i, j>> of the current search
    pc,               \* assemble_genome: "loop", "found", "exit", "done", "panic"
    result,           \* value returned by assemble_genome
    input,            \* the collection the first call was given
    merges,           \* merge iterations completed by the current call
    run,              \* 1: first call, 2: call on the first call's output
    first_result,     \* what the first call returned, kept for the second
    genome,           \* break_into_reads: the genome
    read_length,      \* break_into_reads: window width
    i_read,           \* break_into_reads: window start (the local i)
    reads,            \* break_into_reads: the reads pushed so far
    rpc               \* break_into_reads: "idle", "loop", "done"

vars == <<contigs, k, max_overlap_len, best_pair, pc, result, input, merges,
          run, first_result, genome, read_length, i_read, reads, rpc>>

asmVars == <<contigs, k, max_overlap_len, best_pair, pc, result, input, merges,
            run, first_result>>
readVars == <<genome, read_length, i_read, reads, rpc>>

----
\* Bounds of the model

MaxLen == 2          \* longest generated fragment
MaxFrags == 3        \* largest input collection
MaxChars == 5        \* most characters in a generated collection
MaxK == 4            \* largest overlap bound k
MaxGenome == 4       \* longest genome given to break_into_reads
MaxReadLength == 3   \* largest read_length
MaxReads == 5        \* cap on the reads pushed by a loop that does not advance

----
\* Strings

Alphabet == {"A", "C"}

RECURSIVE StringsOfLen(_)
StringsOfLen(n) ==
    IF n = 0 THEN {<<>>}
    ELSE {Append(s, c) : s \in StringsOfLen(n - 1), c \in Alphabet}

StringsUpTo(n) == UNION {StringsOfLen(m) : m \in 0..n}

\* the three contigs of main
Contig1 == <<"A","T","G","C","G","T","A","C","G">>
Contig2 == <<"C","G","T","A","C","G","T","A","G">>
Contig3 == <<"G","T","A","C","G","T","A","C","T">>

MainContigs == {Contig1, Contig2, Contig3}

RECURSIVE TotalLen(_)
TotalLen(v) == IF v = <<>> THEN 0 ELSE Len(Head(v)) + TotalLen(Tail(v))

\* generated collections, and the collections made of main's contigs
Collections ==
    {c \in UNION {[1..n -> StringsUpTo(MaxLen)] : n \in 0..MaxFrags} :
        TotalLen(c) <= MaxChars}
    \cup UNION {[1..n -> MainContigs] : n \in 1..3}

Min(a, b) == IF a <= b THEN a ELSE b

At(v, i) == v[i + 1]

\* &s[from..]
SliceFrom(s, from) == SubSeq(s, from + 1, Len(s))

\* &s[..to]
SliceTo(s, to) == SubSeq(s, 1, to)

----
\* find_overlap

RECURSIVE find_overlap_scan(_, _, _)
find_overlap_scan(seq1, seq2, i) ==
    IF i < 1 THEN 0
    ELSE IF SliceFrom(seq1, Len(seq1) - i) = SliceTo(seq2, i) THEN i
    ELSE find_overlap_scan(seq1, seq2, i - 1)

\* ascending scan used by the faulty variant below
RECURSIVE find_overlap_ascending(_, _, _, _)
find_overlap_ascending(seq1, seq2, i, m) ==
    IF i > m THEN 0
    ELSE IF SliceFrom(seq1, Len(seq1) - i) = SliceTo(seq2, i) THEN i
    ELSE find_overlap_ascending(seq1, seq2, i + 1, m)

\* faulty variant of find_overlap: candidate lengths scanned shortest first
find_overlap_shortest(seq1, seq2, kk) ==
    find_overlap_ascending(seq1, seq2, 1, Min(Min(kk, Len(seq1)), Len(seq2)))

find_overlap(seq1, seq2, kk) ==
    LET max_len == Min(Min(kk, Len(seq1)), Len(seq2))
    IN  find_overlap_scan(seq1, seq2, max_len)

----
\* assemble_genome

\* Vec::swap_remove: the element at index is replaced by the last element
swap_remove(v, index) ==
    LET n == Len(v)
    IN  [p \in 1..(n - 1) |-> IF p = index + 1 THEN v[n] ELSE v[p]]

\* faulty variant of the search: a later pair with an equal overlap replaces
\* the best pair (>= for >)
RECURSIVE search_pairs_ge(_, _, _, _, _)
search_pairs_ge(c, kk, p, m, bp) ==
    LET n == Len(c)
        i == p \div n
        j == p % n
    IN  IF p >= n * n THEN [max_overlap_len |-> m, best_pair |-> bp]
        ELSE IF i # j /\ find_overlap(At(c, i), At(c, j), kk) >= m
             THEN search_pairs_ge(c, kk, p + 1,
                                  find_overlap(At(c, i), At(c, j), kk), <<i, j>>)
             ELSE search_pairs_ge(c, kk, p + 1, m, bp)

\* the nested for loops, pair number p = i * n + j
RECURSIVE search_pairs(_, _, _, _, _)
search_pairs(c, kk, p, m, bp) ==
    LET n == Len(c)
        i == p \div n
        j == p % n
    IN  IF p >= n * n THEN [max_overlap_len |-> m, best_pair |-> bp]
        ELSE IF i # j /\ find_overlap(At(c, i), At(c, j), kk) > m
             THEN search_pairs(c, kk, p + 1,
                               find_overlap(At(c, i), At(c, j), kk), <<i, j>>)
             ELSE search_pairs(c, kk, p + 1, m, bp)

\* faulty variant of the merge: nothing of contig2 is dropped
merged_contig_whole(contig1, contig2, overlap) == contig1 \o contig2

\* format!("{}{}", contig1, &contig2[max_overlap_len..])
merged_contig(contig1, contig2, overlap) == contig1 \o SliceFrom(contig2, overlap)

\* index given to the second swap_remove
second_index(i, j) == IF i < j THEN j - 1 ELSE j

\* faulty variant of the return: a lone fragment is not returned
pop_second(v) == IF Len(v) >= 2 THEN v[Len(v)] ELSE <<>>

\* faulty variant of the return: the first element is returned
pop_first(v) == IF Len(v) = 0 THEN <<>> ELSE v[1]

\* contigs.pop().unwrap_or_default()
pop_or_default(v) == IF Len(v) = 0 THEN <<>> ELSE v[Len(v)]

pop_rest(v) == IF Len(v) = 0 THEN <<>> ELSE SubSeq(v, 1, Len(v) - 1)

Init ==
    /\ contigs \in Collections
    /\ k \in 0..MaxK
    /\ input = contigs
    /\ max_overlap_len = 0
    /\ best_pair = <<0, 0>>
    /\ pc = "loop"
    /\ result = <<>>
    /\ merges = 0
    /\ run = 1
    /\ first_result = <<>>
    /\ genome = <<>>
    /\ read_length = 1
    /\ i_read = 0
    /\ reads = <<>>
    /\ rpc = "idle"

\* while contigs.len() > 1 { the two for loops
Search ==
    /\ pc = "loop"
    /\ Len(contigs) > 1
    /\ LET found == search_pairs(contigs, k, 0, 0, <<0, 0>>)
       IN  /\ max_overlap_len' = found.max_overlap_len
           /\ best_pair' = found.best_pair
    /\ pc' = "found"
    /\ UNCHANGED <<contigs, k, result, input, merges, run, first_result>>
    /\ UNCHANGED readVars

\* if max_overlap_len == 0 { break }
Break ==
    /\ pc = "found"
    /\ max_overlap_len = 0
    /\ pc' = "exit"
    /\ UNCHANGED <<contigs, k, max_overlap_len, best_pair, result, input, merges, run, first_result>>
    /\ UNCHANGED readVars

\* the two swap_remove calls, the slice of contig2 and the push
Merge ==
    /\ pc = "found"
    /\ max_overlap_len > 0
    /\ LET i == best_pair[1]
           j == best_pair[2]
           contig1 == At(contigs, i)
           after1 == swap_remove(contigs, i)
           contig2 == At(after1, second_index(i, j))
           after2 == swap_remove(after1, second_index(i, j))
       IN  IF max_overlap_len > Len(contig2)
           THEN /\ contigs' = after2
                /\ pc' = "panic"
                /\ merges' = merges
           ELSE /\ contigs' = Append(after2, merged_contig(contig1, contig2, max_overlap_len))
                /\ pc' = "loop"
                /\ merges' = merges + 1
    /\ UNCHANGED <<k, max_overlap_len, best_pair, result, input, run, first_result>>
    /\ UNCHANGED readVars

\* contigs.pop().unwrap_or_default()
Return ==
    /\ \/ pc = "loop" /\ Len(contigs) <= 1
       \/ pc = "exit"
    /\ result' = pop_or_default(contigs)
    /\ contigs' = pop_rest(contigs)
    /\ pc' = "done"
    /\ UNCHANGED <<k, max_overlap_len, best_pair, input, merges, run, first_result>>
    /\ UNCHANGED readVars

\* assemble_genome called again on the one-element collection of its output
Reassemble ==
    /\ pc = "done"
    /\ run = 1
    /\ contigs' = <<result>>
    /\ max_overlap_len' = 0
    /\ best_pair' = <<0, 0>>
    /\ merges' = 0
    /\ run' = 2
    /\ first_result' = result
    /\ pc' = "loop"
    /\ UNCHANGED <<k, result, input>>
    /\ UNCHANGED readVars

Next == Search \/ Break \/ Merge \/ Return \/ Reassemble

Spec == Init /\ [][Next]_vars

----
\* break_into_reads (src/read_creator), for read_length >= 1

InitReads ==
    /\ genome \in StringsUpTo(MaxGenome)
    /\ read_length \in 1..MaxReadLength
    /\ i_read = 0
    /\ reads = <<>>
    /\ rpc = "loop"
    /\ contigs = <<>>
    /\ k = 0
    /\ input = <<>>
    /\ max_overlap_len = 0
    /\ best_pair = <<0, 0>>
    /\ pc = "done"
    /\ result = <<>>
    /\ merges = 0
    /\ run = 2
    /\ first_result = <<>>

\* one iteration of the while loop
ReadStep ==
    /\ rpc = "loop"
    /\ i_read + read_length <= Len(genome)
    /\ Len(reads) < MaxReads
    /\ reads' = Append(reads, SubSeq(genome, i_read + 1, i_read + read_length))
    /\ i_read' = i_read + (read_length - 1)
    /\ UNCHANGED <<genome, read_length, rpc>>
    /\ UNCHANGED asmVars

\* the loop condition fails and reads is returned
ReadsReturn ==
    /\ rpc = "loop"
    /\ ~(i_read + read_length <= Len(genome))
    /\ rpc' = "done"
    /\ UNCHANGED <<genome, read_length, i_read, reads>>
    /\ UNCHANGED asmVars

NextReads == ReadStep \/ ReadsReturn

SpecReads == InitReads /\ [][NextReads]_vars

----
\* Vocabulary of the properties

\* the last L characters of a are the first L characters of b
Matches(a, b, L) ==
    /\ L <= Len(a)
    /\ L <= Len(b)
    /\ \A q \in 1..L : a[Len(a) - L + q] = b[q]

\* the candidate lengths 0..min(k, len(a), len(b)) that match
Matching(a, b, kk) ==
    {L \in 0..Min(Min(kk, Len(a)), Len(b)) : Matches(a, b, L)}

LongestMatch(a, b, kk) ==
    CHOOSE L \in Matching(a, b, kk) : \A x \in Matching(a, b, kk) : x <= L

Range(s) == {s[p] : p \in DOMAIN s}

\* ordered pairs of distinct 0-based positions of v
Pairs(v) == {p \in (0..(Len(v) - 1)) \X (0..(Len(v) - 1)) : p[1] # p[2]}

PairOverlap(v, p, kk) == LongestMatch(At(v, p[1]), At(v, p[2]), kk)

\* p comes before q in the enumeration of the nested loops
Earlier(p, q) == p[1] < q[1] \/ (p[1] = q[1] /\ p[2] < q[2])

NoOverlap(v, kk) == \A p \in Pairs(v) : PairOverlap(v, p, kk) = 0

BagOfSeq(v) == [x \in Range(v) |-> Cardinality({p \in DOMAIN v : v[p] = x})]

\* sub occurs in s as a contiguous substring
IsSubstring(sub, s) ==
    \E o \in 0..(Len(s) - Len(sub)) : \A q \in 1..Len(sub) : s[o + q] = sub[q]

InLoop == pc \in {"loop", "found", "exit"}

----
\* C1: a merge step removes exactly the fragments at positions i and j of the
\* winning pair and adds fragment i followed by fragment j without its first
\* max_overlap_len characters; every other fragment stays.
C1_MergeReplacesWinningPair ==
    [][(pc = "found" /\ pc' = "loop") =>
        LET ci == At(contigs, best_pair[1])
            cj == At(contigs, best_pair[2])
            merged == ci \o SubSeq(cj, max_overlap_len + 1, Len(cj))
        IN  BagOfSeq(contigs') =
                ((BagOfSeq(contigs) (-) SetToBag({ci})) (-) SetToBag({cj}))
                    (+) SetToBag({merged})]_vars

\* C2: assemble_genome never aborts: the fragment whose first max_overlap_len
\* characters are dropped is at least that long.
C2_NeverPanics == pc # "panic"

\* C3 as stated: find_overlap of main's first two contigs with k = 4 is 4 and
\* their assembly is ATGCGTACGTAG.
C3_OverlapFour ==
    (run = 1 /\ pc = "done" /\ input = <<Contig1, Contig2>> /\ k = 4) =>
        /\ find_overlap(Contig1, Contig2, 4) = 4
        /\ result = <<"A","T","G","C","G","T","A","C","G","T","A","G">>

\* C3 amended: find_overlap of main's first two contigs with k = 4 is 2 (the
\* search records 2) and their assembly is ATGCGTACGTACGTAG.
C3_OverlapTwo ==
    (run = 1 /\ pc = "done" /\ input = <<Contig1, Contig2>> /\ k = 4) =>
        /\ find_overlap(Contig1, Contig2, 4) = 2
        /\ max_overlap_len = 2
        /\ merges = 1
        /\ result = <<"A","T","G","C","G","T","A","C","G",
                      "T","A","C","G","T","A","G">>

C3_Witness ==
    run = 1 /\ pc = "done" /\ input = <<Contig1, Contig2>> /\ k = 4

\* C4: find_overlap(a, b, k) is the largest matching length in
\* 0..min(k, len(a), len(b)), and 0 when k = 0 or a or b is empty; checked on
\* every pair of fragments a search has just compared.
C4_FindOverlapLongest ==
    pc = "found" =>
        \A a \in Range(contigs), b \in Range(contigs) :
            LET r == find_overlap(a, b, k)
            IN  /\ r \in Matching(a, b, k)
                /\ r <= Min(Min(k, Len(a)), Len(b))
                /\ \A L \in Matching(a, b, k) : L <= r
                /\ (k = 0 \/ a = <<>> \/ b = <<>>) => r = 0

\* a search compared a pair whose longest candidate length does not match but a
\* shorter one does, and a pair with an empty fragment
C4_Witness ==
    /\ pc = "found"
    /\ \E a \in Range(contigs), b \in Range(contigs) :
          /\ find_overlap(a, b, k) >= 1
          /\ find_overlap(a, b, k) < Min(Min(k, Len(a)), Len(b))
    /\ <<>> \in Range(contigs)

\* C5: with n >= 2 fragments and no ordered pair overlapping, no merge happens,
\* the loop breaks with the n fragments in place, and the fragment at the last
\* position is returned while the other n-1 are left behind.
C5_NoOverlapReturnsLast ==
    (run = 1 /\ Len(input) >= 2 /\ NoOverlap(input, k)) =>
        /\ pc \in {"loop", "found", "exit", "done"}
        /\ merges = 0
        /\ pc = "found" => max_overlap_len = 0
        /\ InLoop => contigs = input
        /\ pc = "done" =>
              /\ result = input[Len(input)]
              /\ contigs = SubSeq(input, 1, Len(input) - 1)
              /\ Len(contigs) = Len(input) - 1

C5_Witness ==
    /\ run = 1 /\ pc = "done" /\ k > 0
    /\ Len(input) = 3 /\ NoOverlap(input, k)
    /\ Len(contigs) = 2
    /\ input[1] # input[3] /\ input[1] # <<>> /\ input[3] # <<>>

\* C6: the loop ends in Done and nowhere else, after at most n-1 merges, each
\* of which shrinks the collection by one; the collection of a call given at
\* least one fragment is never empty inside the loop.
C6_ReachesDone ==
    /\ pc = "done" \/ ENABLED Next
    /\ (run = 1 /\ Len(input) >= 1) => merges <= Len(input) - 1
    /\ (run = 1 /\ InLoop) => Len(contigs) = Len(input) - merges
    /\ (run = 1 /\ InLoop /\ Len(input) >= 1) => Len(contigs) >= 1

\* C7: an empty collection yields the empty sequence and a one-element
\* collection its element, without a merge; assembling the one-element
\* collection of a returned sequence returns that sequence.
C7_SingleAndIdempotent ==
    /\ (run = 1 /\ Len(input) = 0) => (pc \in {"loop", "done"} /\ merges = 0)
    /\ (run = 1 /\ Len(input) = 0 /\ pc = "done") => result = <<>>
    /\ (run = 1 /\ Len(input) = 1) => (pc \in {"loop", "done"} /\ merges = 0)
    /\ (run = 1 /\ Len(input) = 1 /\ pc = "done") => result = input[1]
    /\ run = 2 => (pc \in {"loop", "done"} /\ merges = 0)
    /\ (run = 2 /\ pc = "done") => result = first_result

\* the second call returned, on the output of a first call that merged
C7_Witness ==
    /\ run = 2 /\ pc = "done"
    /\ Len(input) >= 2
    /\ Len(first_result) >= 2
    /\ first_result \notin Range(input)

\* C8: after a search, max_overlap_len is the largest overlap over all ordered
\* pairs of distinct positions and best_pair is the first pair, in enumeration
\* order, that attains it.
C8_FirstLongestPair ==
    pc = "found" =>
        /\ \A p \in Pairs(contigs) : PairOverlap(contigs, p, k) <= max_overlap_len
        /\ max_overlap_len > 0 =>
              /\ best_pair \in Pairs(contigs)
              /\ PairOverlap(contigs, best_pair, k) = max_overlap_len
              /\ \A p \in Pairs(contigs) :
                    PairOverlap(contigs, p, k) = max_overlap_len =>
                        ~Earlier(p, best_pair)
        /\ max_overlap_len = 0 => best_pair = <<0, 0>>

\* a search in which a later pair ties with the winning pair, the winner
\* having i > j
C8_Witness ==
    /\ pc = "found" /\ max_overlap_len > 0
    /\ Len(contigs) >= 3
    /\ \E p \in Pairs(contigs) :
          /\ Earlier(best_pair, p)
          /\ PairOverlap(contigs, p, k) = max_overlap_len
          /\ p[1] < p[2]
    /\ best_pair[1] > best_pair[2]

\* C9: while the first call is in its loop, every fragment of the input is a
\* contiguous substring of some fragment of the collection.
C9_InputFragmentsKept ==
    (run = 1 /\ InLoop) =>
        \A f \in Range(input) : \E c \in Range(contigs) : IsSubstring(f, c)

\* C10: every iteration of break_into_reads pushes a read of read_length
\* characters and moves the window start forward.
C10_WindowAdvances ==
    [][reads' # reads =>
        /\ i_read' > i_read
        /\ Len(reads'[Len(reads')]) = read_length]_vars

====
